---- MODULE Spec2Model ----
(***************************************************************************)
(* Newmark-beta time stepping of the cantilever-beam notebooks             *)
(* (03-Dynamics/Newmark.ipynb and its completed companion notebook).       *)
(*                                                                         *)
(* The notebook is a sequence of cells; the model follows one run of the   *)
(* cells in order: validation of the lumped-mass flag, validation of the   *)
(* time step, assembly of C and K, construction of compute_acceleration,   *)
(* and the time-stepping loop (predictor, force assembly, solve,           *)
(* corrector, logging, export).                                            *)
(*                                                                         *)
(* All reals are exact rationals <<num, den>> in lowest terms (den > 0),   *)
(* so "exactly zero" and "equal" mean what they say.                       *)
(***************************************************************************)
EXTENDS Integers, Sequences, FiniteSets, TLC

(***************************************************************************)
(* Exact rational arithmetic                                               *)
(***************************************************************************)
(* Every operation binds its arguments once (as the arguments of a local  *)
(* function) before using them.                                            *)
Abs(x) == IF x < 0 THEN -x ELSE x

Q == Int \X Int

Gcd(x, y) ==
    LET gcd[a \in Nat, b \in Nat] == IF b = 0 THEN a ELSE gcd[b, a % b]
    IN  gcd[x, y]

Rat(p, q) ==
    LET rat[a \in Int, b \in Int] ==
            LET g == Gcd(Abs(a), Abs(b))
                s == IF b < 0 THEN -1 ELSE 1
            IN  << s * (a \div g), s * (b \div g) >>
    IN  rat[p, q]

Zero == << 0, 1 >>
One == << 1, 1 >>
Half == << 1, 2 >>

RatAdd(x, y) ==
    LET add[a \in Q, b \in Q] ==
            LET g == Gcd(a[2], b[2])
            IN  Rat(a[1] * (b[2] \div g) + b[1] * (a[2] \div g),
                    (a[2] \div g) * b[2])
    IN  add[x, y]

RatNeg(x) == LET neg[a \in Q] == << -a[1], a[2] >> IN neg[x]

RatSub(x, y) == RatAdd(x, RatNeg(y))

RatMul(x, y) ==
    LET mul[a \in Q, b \in Q] ==
            LET g1 == Gcd(Abs(a[1]), b[2])
                g2 == Gcd(Abs(b[1]), a[2])
            IN  IF a[1] = 0 \/ b[1] = 0 THEN Zero
                ELSE << (a[1] \div g1) * (b[1] \div g2),
                        (a[2] \div g2) * (b[2] \div g1) >>
    IN  mul[x, y]

RatInv(x) ==
    LET inv[a \in Q] == IF a[1] < 0 THEN << -a[2], -a[1] >> ELSE << a[2], a[1] >>
    IN  inv[x]

RatDiv(x, y) == RatMul(x, RatInv(y))

RatAbs(x) == LET abs[a \in Q] == << Abs(a[1]), a[2] >> IN abs[x]

RatLess(x, y) == RatSub(x, y)[1] < 0

RatLeq(x, y) == RatSub(x, y)[1] <= 0

RatGreater(x, y) == RatLess(y, x)

(* x < 10^(-e), without forming 10^e: p * 10^e < q iff p * 10^(e-1) < ceil(q/10) *)
IntLessPow10(p, q, e) ==
    LET less[a \in Int, b \in Int, k \in Nat] ==
            IF k = 0 THEN a < b ELSE less[a, (b + 9) \div 10, k - 1]
    IN  less[p, q, e]

RatLessPow10(x, e) == LET less[a \in Q] == IntLessPow10(a[1], a[2], e) IN less[x]

(* square root of a rational that is a perfect square *)
IntSqrt(k) == CHOOSE r \in 0..k : r * r = k

RatSqrt(x) == LET sqrt[a \in Q] == << IntSqrt(a[1]), IntSqrt(a[2]) >> IN sqrt[x]

(***************************************************************************)
(* Vectors and matrices over the dofs of the function space V              *)
(***************************************************************************)
Dofs == {1, 2}

Vec == [Dofs -> Q]

Mat == [Dofs -> Vec]

RatSum(S, term) ==
    LET sum[T \in SUBSET Dofs, x \in Vec] ==
            IF T = {} THEN Zero
            ELSE LET i == CHOOSE j \in T : TRUE
                 IN  RatAdd(x[i], sum[T \ {i}, x])
    IN  sum[S, term]

ZeroVec == [i \in Dofs |-> Zero]

(* y.axpy(alpha, x): y <- alpha*x + y *)
Axpy(y, alpha, x) ==
    LET axpy[b \in Vec, s \in Q, a \in Vec] ==
            [i \in Dofs |-> RatAdd(RatMul(s, a[i]), b[i])]
    IN  axpy[y, alpha, x]

(* A.mult(x, y): y <- A*x *)
Mult(A, x) ==
    LET mult[B \in Mat, a \in Vec] ==
            [i \in Dofs |-> RatSum(Dofs, [j \in Dofs |-> RatMul(B[i][j], a[j])])]
    IN  mult[A, x]

Dot(x, y) ==
    LET dot[a \in Vec, b \in Vec] ==
            RatSum(Dofs, [i \in Dofs |-> RatMul(a[i], b[i])])
    IN  dot[x, y]

MatAxpy(B, alpha, A) ==
    LET axpy[Y \in Mat, s \in Q, X \in Mat] ==
            [i \in Dofs |-> [j \in Dofs |-> RatAdd(RatMul(s, X[i][j]), Y[i][j])]]
    IN  axpy[B, alpha, A]

MatScale(alpha, A) ==
    LET scale[s \in Q, X \in Mat] ==
            [i \in Dofs |-> [j \in Dofs |-> RatMul(s, X[i][j])]]
    IN  scale[alpha, A]

(* the quadratic form x^T A x, as dolfin.assemble evaluates a(x, x) *)
Quad(A, x) == LET quad[a \in Vec] == Dot(a, Mult(A, a)) IN quad[x]

(***************************************************************************)
(* Inputs of a run (the parameter cells of the notebook)                   *)
(***************************************************************************)
MaxSteps == 3

NewmarkPairs == { << Zero, Half >>, << Rat(1, 4), Half >>, << Zero, One >> }

TimeSteps == { 1, 2 }

MeshSizes == { Rat(2, 1), Rat(4, 1), Rat(200, 101) }

Youngs == { Rat(4, 1) }

Densities == { One }

EtaMs == { Zero, One }

EtaKs == { Zero, One, Rat(-1, 1) }

CutOffs == { Rat(2, 1) }

TMaxs == { Zero, One }

(* nodal pattern of the assembled surface load p_ext *)
LoadShapes == { [i \in Dofs |-> IF i = 2 THEN One ELSE Zero],
                [i \in Dofs |-> One] }

(***************************************************************************)
(* State of the notebook run                                               *)
(***************************************************************************)
VARIABLES
    params,         \* the parameter cells: flags, Newmark pair, material, load
    pc,             \* the cell / loop position about to execute
    error,          \* the exception that stopped the run, "" if none
    warnings_log,   \* messages passed to warnings.warn, in order
    dt, dt_crit,    \* time step and critical time step
    C, K, M,        \* assembled operators (M only in the implicit branch)
    M_lumped_inv,   \* inverted lumped diagonal (lumped branch)
    u_vec, v_vec, a_vec,   \* displacement, velocity, acceleration
    f,              \* right-hand side of the current step
    n,              \* loop index of the time-stepping loop
    times, displ_tip, energies, E_damp,   \* diagnostic time series
    xdmf_file,      \* what has been written to the XDMF file, in order
    time_solve,     \* number of timed calls of compute_acceleration
    newton,         \* the locals of a call of newton_solver
    branches        \* both compute_acceleration closures built on one system

vars == << params, pc, error, warnings_log, dt, dt_crit, C, K, M, M_lumped_inv,
           u_vec, v_vec, a_vec, f, n, times, displ_tip, energies, E_damp,
           xdmf_file, time_solve, newton, branches >>

config_vars == << params >>

operator_vars == << C, K, M, M_lumped_inv >>

state_vars == << u_vec, v_vec, a_vec >>

log_vars == << times, displ_tip, energies, E_damp >>

use_lumped_mass == params.use_lumped_mass
beta == params.beta
gamma == params.gamma
num_steps == params.num_steps
t_end == params.t_end

(* Dirichlet conditions: the dofs on `left`, prescribed value zero *)
bcs == {1}

ZeroMat == [i \in Dofs |-> [j \in Dofs |-> Zero]]

(* variant: constrained rows and columns are both eliminated *)
BcApplyMat_symmetric(A) ==
    [i \in Dofs |-> [j \in Dofs |->
        IF i \in bcs \/ j \in bcs
        THEN (IF i = j THEN One ELSE Zero)
        ELSE A[i][j]]]

(* bc.apply(A): every constrained row becomes the identity row *)
BcApplyMat(A) ==
    [i \in Dofs |-> IF i \in bcs
                    THEN [j \in Dofs |-> IF j = i THEN One ELSE Zero]
                    ELSE A[i]]

(* variant: the boundary conditions are not applied to vectors *)
BcApplyVec_skip(b) == b

(* bc.apply(b): every constrained entry takes the prescribed value 0 *)
BcApplyVec(b) == [i \in Dofs |-> IF i \in bcs THEN Zero ELSE b[i]]

(***************************************************************************)
(* The bilinear forms, assembled on the two-node mesh                      *)
(***************************************************************************)
mass == [i \in Dofs |-> [j \in Dofs |->
            RatMul(params.rho, IF i = j THEN Rat(2, 1) ELSE One)]]

stiffness == [i \in Dofs |-> [j \in Dofs |->
            RatMul(params.E, IF i = j THEN One ELSE Rat(-1, 1))]]

damping == MatAxpy(MatScale(params.eta_m, mass), params.eta_k, stiffness)

(* variant: unit amplitude instead of T_max *)
traction_unit(t) ==
    IF RatLeq(t, params.t_c) THEN RatDiv(t, params.t_c) ELSE Zero

(* t <= t_c ? T_max*t/t_c : 0 *)
traction(t) ==
    IF RatLeq(t, params.t_c)
    THEN RatDiv(RatMul(params.T_max, t), params.t_c)
    ELSE Zero

p_ext(t) == [i \in Dofs |-> RatMul(traction(t), params.load[i])]

(* the projected stress of the single element *)
stress_strain(u) == RatMul(params.E, RatSub(u[2], u[1]))

(* newton_solver (notebook 02) and the side-by-side construction of the    *)
(* two solve closures are separate programs: not running here              *)
NotCalled == [ pc |-> "NotCalled" ]

Init ==
    /\ params \in [ use_lumped_mass : BOOLEAN,
                    beta : { bg[1] : bg \in NewmarkPairs },
                    gamma : { bg[2] : bg \in NewmarkPairs },
                    num_steps : 1..MaxSteps,
                    t_end : { s * d : s \in 1..MaxSteps, d \in TimeSteps },
                    l_e : MeshSizes,
                    E : Youngs,
                    rho : Densities,
                    eta_m : EtaMs,
                    eta_k : EtaKs,
                    t_c : CutOffs,
                    T_max : TMaxs,
                    load : LoadShapes ]
    /\ << params.beta, params.gamma >> \in NewmarkPairs
    /\ params.t_end \in { params.num_steps * d : d \in TimeSteps }
    /\ newton = NotCalled
    /\ branches = NotCalled
    /\ pc = "validate_lumped"
    /\ error = ""
    /\ warnings_log = << >>
    /\ dt = Zero
    /\ dt_crit = Zero
    /\ C = ZeroMat
    /\ K = ZeroMat
    /\ M = ZeroMat
    /\ M_lumped_inv = ZeroVec
    /\ u_vec = ZeroVec
    /\ v_vec = ZeroVec
    /\ a_vec = ZeroVec
    /\ f = ZeroVec
    /\ n = 0
    /\ times = << >>
    /\ displ_tip = << >>
    /\ energies = << >>
    /\ E_damp = Zero
    /\ xdmf_file = << >>
    /\ time_solve = 0

(***************************************************************************)
(* Validation of inputs                                                    *)
(***************************************************************************)
(* the pair for which the scheme is explicit (centred differences) *)
beta_exp == Zero

gamma_exp == Half

(* atol = 1e-12 *)
atol_exponent == 12

test_beta == RatLessPow10(RatAbs(RatSub(beta, beta_exp)), atol_exponent)

test_gamma == RatLessPow10(RatAbs(RatSub(gamma, gamma_exp)), atol_exponent)

(* variant: the parameters are tested whatever the mode *)
LumpedMassRejected_anymode == ~(test_beta /\ test_gamma)

(* variant: the two tests combined with "or" *)
LumpedMassRejected_or == use_lumped_mass /\ ~(test_beta \/ test_gamma)

LumpedMassRejected == use_lumped_mass /\ ~(test_beta /\ test_gamma)

ValidateLumpedMass ==
    /\ pc = "validate_lumped"
    /\ IF LumpedMassRejected
       THEN /\ pc' = "Error"
            /\ error' = "RuntimeError: cannot use lumped mass in this case"
       ELSE /\ pc' = "time_step"
            /\ error' = error
    /\ UNCHANGED << newton, branches, params, warnings_log, dt, dt_crit, C, K, M, M_lumped_inv,
                    u_vec, v_vec, a_vec, f, n, times, displ_tip, energies,
                    E_damp, xdmf_file, time_solve >>

(* c_e = sqrt(E/rho); l_e = mesh.rmin(); dt_crit = l_e/c_e *)
c_e == RatSqrt(RatDiv(params.E, params.rho))

ComputeTimeStep ==
    /\ pc = "time_step"
    /\ dt' = RatDiv(Rat(t_end, 1), Rat(num_steps, 1))
    /\ dt_crit' = RatDiv(params.l_e, c_e)
    /\ pc' = "validate_dt"
    /\ UNCHANGED << newton, branches, params, error, warnings_log, C, K, M, M_lumped_inv,
                    u_vec, v_vec, a_vec, f, n, times, displ_tip, energies,
                    E_damp, xdmf_file, time_solve >>

(* variant: non-strict comparison *)
TimeStepUnstable_geq == RatLeq(dt_crit, dt)

TimeStepUnstable == RatGreater(dt, dt_crit)

(* variant: an unstable time step stops the run *)
ValidateTimeStep_abort ==
    /\ pc = "validate_dt"
    /\ IF RatGreater(dt, dt_crit)
       THEN /\ warnings_log' = Append(warnings_log, "simulation might be unstable")
            /\ pc' = "Error"
       ELSE /\ warnings_log' = warnings_log
            /\ pc' = "assemble"
    /\ UNCHANGED << newton, branches, params, error, dt, dt_crit, C, K, M, M_lumped_inv,
                    u_vec, v_vec, a_vec, f, n, times, displ_tip, energies,
                    E_damp, xdmf_file, time_solve >>

ValidateTimeStep ==
    /\ pc = "validate_dt"
    /\ warnings_log' = IF TimeStepUnstable
                       THEN Append(warnings_log, "simulation might be unstable")
                       ELSE warnings_log
    /\ pc' = "assemble"
    /\ UNCHANGED << newton, branches, params, error, dt, dt_crit, C, K, M, M_lumped_inv,
                    u_vec, v_vec, a_vec, f, n, times, displ_tip, energies,
                    E_damp, xdmf_file, time_solve >>

(***************************************************************************)
(* Assembly and construction of compute_acceleration                       *)
(***************************************************************************)
(* variant: the boundary conditions are not applied to K *)
AssembleOperators_nobcK ==
    /\ pc = "assemble"
    /\ C' = BcApplyMat(damping)
    /\ K' = stiffness
    /\ pc' = "build"
    /\ UNCHANGED << newton, branches, params, error, warnings_log, dt, dt_crit, M, M_lumped_inv,
                    u_vec, v_vec, a_vec, f, n, times, displ_tip, energies,
                    E_damp, xdmf_file, time_solve >>

AssembleOperators ==
    /\ pc = "assemble"
    /\ C' = BcApplyMat(damping)
    /\ K' = BcApplyMat(stiffness)
    /\ pc' = "build"
    /\ UNCHANGED << newton, branches, params, error, warnings_log, dt, dt_crit, M, M_lumped_inv,
                    u_vec, v_vec, a_vec, f, n, times, displ_tip, energies,
                    E_damp, xdmf_file, time_solve >>

one_half == Half

(* assemble(action(mass + one_half*dt*damping, ones)): the row sums *)
M_lumped ==
    LET m == MatAxpy(mass, RatMul(one_half, dt), damping)
    IN  [i \in Dofs |-> RatSum(Dofs, m[i])]

(* variant: the mass is added to the M already held instead of replacing it *)
EffectiveMatrix_accumulate ==
    LET M0 == MatAxpy(M, One, mass)
        M1 == MatAxpy(M0, RatMul(gamma, dt), C)
        M2 == MatAxpy(M1, RatMul(beta, RatMul(dt, dt)), K)
    IN  BcApplyMat(M2)

(* variant: stiffness weighted with beta*dt instead of beta*dt**2 *)
EffectiveMatrix_dt ==
    LET M0 == mass
        M1 == MatAxpy(M0, RatMul(gamma, dt), C)
        M2 == MatAxpy(M1, RatMul(beta, dt), K)
    IN  BcApplyMat(M2)

(* M <- M + gamma*dt*C + beta*dt^2*K, then bc.apply(M) *)
EffectiveMatrix ==
    LET M0 == mass
        M1 == MatAxpy(M0, RatMul(gamma, dt), C)
        M2 == MatAxpy(M1, RatMul(beta, RatMul(dt, dt)), K)
    IN  BcApplyMat(M2)

BuildComputeAcceleration ==
    /\ pc = "build"
    /\ IF use_lumped_mass
       THEN /\ M_lumped_inv' = [i \in Dofs |-> RatInv(M_lumped[i])]
            /\ M' = M
       ELSE /\ M' = EffectiveMatrix
            /\ M_lumped_inv' = M_lumped_inv
    /\ pc' = "allocate"
    /\ UNCHANGED << newton, branches, params, error, warnings_log, dt, dt_crit, C, K,
                    u_vec, v_vec, a_vec, f, n, times, displ_tip, energies,
                    E_damp, xdmf_file, time_solve >>

(* determinant and direct solution of the 2x2 system held by the LU solver *)
Det(A) == RatSub(RatMul(A[1][1], A[2][2]), RatMul(A[1][2], A[2][1]))

Singular(A) == Det(A) = Zero

LUSolve(A, b) ==
    << RatDiv(RatSub(RatMul(b[1], A[2][2]), RatMul(A[1][2], b[2])), Det(A)),
       RatDiv(RatSub(RatMul(A[1][1], b[2]), RatMul(b[1], A[2][1])), Det(A)) >>

(* lumped branch: a_vec[:] = M_lumped_inv*f[:], then bc.apply(a_vec);      *)
(* the body reads the notebook-level f, not its argument f_vec             *)
ComputeAccelerationLumped(f_vec) ==
    BcApplyVec([i \in Dofs |-> RatMul(M_lumped_inv[i], f[i])])

(* implicit branch: solver.solve(a_vec, f_vec) *)
ComputeAccelerationImplicit(f_vec) == LUSolve(M, f_vec)

compute_acceleration(f_vec) ==
    IF use_lumped_mass
    THEN ComputeAccelerationLumped(f_vec)
    ELSE ComputeAccelerationImplicit(f_vec)

SolveFails == ~use_lumped_mass /\ Singular(M)

(***************************************************************************)
(* Time discretization                                                     *)
(***************************************************************************)
coords_tip == CHOOSE i \in Dofs : i \notin bcs

ZeroRow == << Zero, Zero, Zero, Zero >>

AllocateOutputs ==
    /\ pc = "allocate"
    /\ u_vec' = ZeroVec
    /\ v_vec' = ZeroVec
    /\ a_vec' = ZeroVec
    /\ times' = [k \in 0..num_steps |-> RatMul(dt, Rat(k, 1))]
    /\ displ_tip' = [k \in 0..num_steps |-> Zero]
    /\ energies' = [k \in 0..num_steps |-> ZeroRow]
    /\ E_damp' = Zero
    /\ xdmf_file' = << >>
    /\ pc' = "zero"
    /\ UNCHANGED << newton, branches, params, error, warnings_log, dt, dt_crit, C, K, M,
                    M_lumped_inv, f, n, time_solve >>

(* variant: loop bound off by one *)
LoopContinues_le(k) == k <= num_steps

(* for n in range(num_steps) *)
LoopContinues(k) == k < num_steps

(* u_vec.zero() ... time_solve = 0., and entry into the for loop *)
StartStepping ==
    /\ pc = "zero"
    /\ u_vec' = ZeroVec
    /\ v_vec' = ZeroVec
    /\ a_vec' = ZeroVec
    /\ time_solve' = 0
    /\ n' = 0
    /\ pc' = IF LoopContinues(0) THEN "predictor" ELSE "print"
    /\ UNCHANGED << newton, branches, params, error, warnings_log, dt, dt_crit, C, K, M,
                    M_lumped_inv, f, times, displ_tip, energies, E_damp,
                    xdmf_file >>

dt2 == RatMul(dt, dt)

(* variant: the displacement predictor ignores beta *)
PredictU_half(u, v, a) == Axpy(Axpy(u, dt, v), RatMul(Half, dt2), a)

(* u_vec.axpy(dt, v_vec); u_vec.axpy((.5-beta)*dt**2, a_vec) *)
PredictU(u, v, a) == Axpy(Axpy(u, dt, v), RatMul(RatSub(Half, beta), dt2), a)

(* v_vec.axpy((1.-gamma)*dt, a_vec) *)
PredictV(v, a) == Axpy(v, RatMul(RatSub(One, gamma), dt), a)

(* variant: the velocity is predicted first and the displacement uses it *)
Predictor_swapped ==
    /\ pc = "predictor"
    /\ v_vec' = PredictV(v_vec, a_vec)
    /\ u_vec' = PredictU(u_vec, v_vec', a_vec)
    /\ pc' = "force"
    /\ UNCHANGED << newton, branches, params, error, warnings_log, dt, dt_crit, C, K, M,
                    M_lumped_inv, a_vec, f, n, times, displ_tip, energies,
                    E_damp, xdmf_file, time_solve >>

Predictor ==
    /\ pc = "predictor"
    /\ u_vec' = PredictU(u_vec, v_vec, a_vec)
    /\ v_vec' = PredictV(v_vec, a_vec)
    /\ pc' = "force"
    /\ UNCHANGED << newton, branches, params, error, warnings_log, dt, dt_crit, C, K, M,
                    M_lumped_inv, a_vec, f, n, times, displ_tip, energies,
                    E_damp, xdmf_file, time_solve >>

(* variant: the load is evaluated at the start of the step, t = n*dt *)
StepTime_start(k) == RatMul(Rat(k, 1), dt)

(* traction.t = (n+1)*dt *)
StepTime(k) == RatMul(Rat(k + 1, 1), dt)

(* variant: the boundary conditions are not applied to f *)
EffectiveLoad_nobc(k, u, v) ==
    LET f0 == p_ext(StepTime(k))
        f1 == Axpy(f0, Rat(-1, 1), Mult(C, v))
    IN  Axpy(f1, Rat(-1, 1), Mult(K, u))

(* f = assemble(p_ext); f -= C*v; f -= K*u; bc.apply(f) *)
EffectiveLoad(k, u, v) ==
    LET f0 == p_ext(StepTime(k))
        f1 == Axpy(f0, Rat(-1, 1), Mult(C, v))
        f2 == Axpy(f1, Rat(-1, 1), Mult(K, u))
    IN  BcApplyVec(f2)

AssembleForce ==
    /\ pc = "force"
    /\ f' = EffectiveLoad(n, u_vec, v_vec)
    /\ pc' = "solve"
    /\ UNCHANGED << newton, branches, params, error, warnings_log, dt, dt_crit, C, K, M,
                    M_lumped_inv, u_vec, v_vec, a_vec, n, times, displ_tip,
                    energies, E_damp, xdmf_file, time_solve >>

(* variant: a failed solve is swallowed and the step goes on *)
ComputeAcceleration_swallow ==
    /\ pc = "solve"
    /\ IF SolveFails
       THEN /\ error' = "RuntimeError: unable to solve linear system"
            /\ UNCHANGED << a_vec, time_solve >>
       ELSE /\ a_vec' = compute_acceleration(f)
            /\ time_solve' = time_solve + 1
            /\ error' = error
    /\ pc' = "corrector"
    /\ UNCHANGED << newton, branches, params, warnings_log, dt, dt_crit, C, K, M, M_lumped_inv,
                    u_vec, v_vec, f, n, times, displ_tip, energies, E_damp,
                    xdmf_file >>

ComputeAcceleration ==
    /\ pc = "solve"
    /\ IF SolveFails
       THEN /\ pc' = "Error"
            /\ error' = "RuntimeError: unable to solve linear system"
            /\ UNCHANGED << a_vec, time_solve >>
       ELSE /\ a_vec' = compute_acceleration(f)
            /\ time_solve' = time_solve + 1
            /\ pc' = "corrector"
            /\ error' = error
    /\ UNCHANGED << newton, branches, params, warnings_log, dt, dt_crit, C, K, M, M_lumped_inv,
                    u_vec, v_vec, f, n, times, displ_tip, energies, E_damp,
                    xdmf_file >>

(* variant: corrector with beta*dt instead of beta*dt**2 *)
CorrectU_dt(u, a) == Axpy(u, RatMul(beta, dt), a)

(* u_vec.axpy(beta*dt**2, a_vec); v_vec.axpy(gamma*dt, a_vec) *)
CorrectU(u, a) == Axpy(u, RatMul(beta, dt2), a)

(* variant: velocity corrector with gamma*dt**2 *)
CorrectV_dt2(v, a) == Axpy(v, RatMul(gamma, dt2), a)

CorrectV(v, a) == Axpy(v, RatMul(gamma, dt), a)

Corrector ==
    /\ pc = "corrector"
    /\ u_vec' = CorrectU(u_vec, a_vec)
    /\ v_vec' = CorrectV(v_vec, a_vec)
    /\ pc' = "log"
    /\ UNCHANGED << newton, branches, params, error, warnings_log, dt, dt_crit, C, K, M,
                    M_lumped_inv, a_vec, f, n, times, displ_tip, energies,
                    E_damp, xdmf_file, time_solve >>

E_elas == RatMul(Half, Quad(stiffness, u_vec))

(* variant: kinetic energy taken with the matrix of the linear system *)
E_kin_effective == RatMul(Half, Quad(M, v_vec))

E_kin == RatMul(Half, Quad(mass, v_vec))

(* variant: the dissipated power is subtracted *)
DampingIncrement_minus == RatNeg(RatMul(dt, Quad(damping, v_vec)))

(* variant: dissipation taken with the predicted velocity *)
DampingIncrement_predicted ==
    RatMul(dt, Quad(damping, Axpy(v_vec, RatNeg(RatMul(gamma, dt)), a_vec)))

DampingIncrement == RatMul(dt, Quad(damping, v_vec))

EnergyRow(damp) == << E_elas, E_kin, damp, RatAdd(RatAdd(E_elas, E_kin), damp) >>

(* variant: row n written instead of row n+1 *)
LogIndex_same(k) == k

(* displ_tip[n+1], energies[n+1, :] *)
LogIndex(k) == k + 1

LogStep ==
    /\ pc = "log"
    /\ displ_tip' = [displ_tip EXCEPT ![LogIndex(n)] = u_vec[coords_tip]]
    /\ E_damp' = RatAdd(E_damp, DampingIncrement)
    /\ energies' = [energies EXCEPT ![LogIndex(n)] = EnergyRow(E_damp')]
    /\ pc' = "export"
    /\ UNCHANGED << newton, branches, params, error, warnings_log, dt, dt_crit, C, K, M,
                    M_lumped_inv, u_vec, v_vec, a_vec, f, n, times,
                    xdmf_file, time_solve >>

(* variant: the displacement written is the predicted one *)
Snapshots_predicted(k) ==
    << [name |-> "u", t |-> Rat(k, 1),
        u |-> Axpy(u_vec, RatNeg(RatMul(beta, dt2)), a_vec), sig |-> Zero],
       [name |-> "sigma", t |-> Rat(k, 1), u |-> ZeroVec, sig |-> stress_strain(u_vec)] >>

(* xdmf_file.write(u, n); xdmf_file.write(sig, n) *)
Snapshots(k) ==
    << [name |-> "u", t |-> Rat(k, 1), u |-> u_vec, sig |-> Zero],
       [name |-> "sigma", t |-> Rat(k, 1), u |-> ZeroVec, sig |-> stress_strain(u_vec)] >>

Export ==
    /\ pc = "export"
    /\ xdmf_file' = xdmf_file \o Snapshots(n)
    /\ n' = n + 1
    /\ pc' = IF LoopContinues(n + 1) THEN "predictor" ELSE "print"
    /\ UNCHANGED << newton, branches, params, error, warnings_log, dt, dt_crit, C, K, M,
                    M_lumped_inv, u_vec, v_vec, a_vec, f, times, displ_tip,
                    energies, E_damp, time_solve >>

(* print(time_solve) *)
Finish ==
    /\ pc = "print"
    /\ pc' = "Completed"
    /\ UNCHANGED << newton, branches, params, error, warnings_log, dt, dt_crit, C, K, M,
                    M_lumped_inv, u_vec, v_vec, a_vec, f, n, times, displ_tip,
                    energies, E_damp, xdmf_file, time_solve >>

Next ==
    \/ ValidateLumpedMass
    \/ ComputeTimeStep
    \/ ValidateTimeStep
    \/ AssembleOperators
    \/ BuildComputeAcceleration
    \/ AllocateOutputs
    \/ StartStepping
    \/ Predictor
    \/ AssembleForce
    \/ ComputeAcceleration
    \/ Corrector
    \/ LogStep
    \/ Export
    \/ Finish

Spec == Init /\ [][Next]_vars

TypeOK ==
    /\ pc \in { "validate_lumped", "time_step", "validate_dt", "assemble",
                "build", "allocate", "zero", "predictor", "force", "solve",
                "corrector", "log", "export", "print", "Completed", "Error" }
    /\ n \in 0..MaxSteps
    /\ time_solve \in 0..MaxSteps

(***************************************************************************)
(* Properties                                                              *)
(***************************************************************************)
Validated == pc \notin { "validate_lumped" }

Stepping == pc \in { "predictor", "force", "solve", "corrector", "log", "export" }

(* the corrector of the current iteration has run *)
StepDone == pc \in { "log", "export" }

NothingBuiltOrStepped ==
    /\ C = ZeroMat /\ K = ZeroMat /\ M = ZeroMat /\ M_lumped_inv = ZeroVec
    /\ dt = Zero /\ n = 0 /\ time_solve = 0
    /\ times = << >> /\ displ_tip = << >> /\ energies = << >>
    /\ xdmf_file = << >>
    /\ u_vec = ZeroVec /\ v_vec = ZeroVec /\ a_vec = ZeroVec

C2_BoundaryInvariant ==
    (StepDone \/ (pc \in { "predictor", "print", "Completed" } /\ n > 0)) =>
        \A i \in bcs : u_vec[i] = Zero /\ v_vec[i] = Zero

C2_Witness ==
    /\ use_lumped_mass
    /\ pc = "export"
    /\ n >= 1
    /\ params.load[1] # Zero
    /\ u_vec[coords_tip] # Zero
    /\ v_vec[coords_tip] # Zero

(* C3: with zero external force and zero initial state, the state and      *)
(* every logged row stay exactly zero through all steps.                   *)
C3_TrivialEquilibrium ==
    (params.T_max = Zero /\ pc \notin { "validate_lumped", "time_step",
                                       "validate_dt", "assemble", "build",
                                       "allocate", "Error" }) =>
        /\ u_vec = ZeroVec /\ v_vec = ZeroVec /\ a_vec = ZeroVec
        /\ \A k \in DOMAIN displ_tip : displ_tip[k] = Zero
        /\ \A k \in DOMAIN energies : energies[k] = ZeroRow

C3_Witness ==
    /\ params.T_max = Zero
    /\ pc = "Completed"
    /\ n = num_steps
    /\ n >= 2

(* residual of the equation of motion at the end of step k *)
MotionResidual(k) ==
    LET Ma == Mult(mass, a_vec)
        Cv == Mult(damping, v_vec)
        Ku == Mult(stiffness, u_vec)
        F == p_ext(StepTime(k))
    IN  [i \in Dofs |-> RatSub(RatAdd(RatAdd(Ma[i], Cv[i]), Ku[i]), F[i])]

(* C4: in implicit mode the state after the corrector of step n satisfies  *)
(* M a + C v + K u = F((n+1) dt) at every unconstrained dof.               *)
C4_EquationOfMotion ==
    (~use_lumped_mass /\ StepDone) =>
        \A i \in Dofs \ bcs : MotionResidual(n)[i] = Zero

C4_Witness ==
    /\ ~use_lumped_mass
    /\ pc = "export"
    /\ n >= 1
    /\ params.eta_k # Zero
    /\ beta # Zero
    /\ dt # One
    /\ a_vec[coords_tip] # Zero
    /\ v_vec[coords_tip] # Zero

SolveError == "RuntimeError: unable to solve linear system"

(* the output arrays exist *)
Allocated ==
    \/ pc \in { "zero", "predictor", "force", "solve", "corrector", "log",
                "export", "print", "Completed" }
    \/ (pc = "Error" /\ error = SolveError)

C5_Counts ==
    /\ pc \in { "predictor", "force", "solve" } =>
           (n < num_steps /\ time_solve = n)
    /\ pc \in { "corrector", "log", "export" } =>
           (n < num_steps /\ time_solve = n + 1)
    /\ pc \in { "print", "Completed" } =>
           (n = num_steps /\ time_solve = num_steps)
    /\ Len(xdmf_file) = 2 * n

LumpedError == "RuntimeError: cannot use lumped mass in this case"

(* position inside the loop body, counted from its end *)
BodyLeft ==
    CASE pc = "predictor" -> 6
      [] pc = "force" -> 5
      [] pc = "solve" -> 4
      [] pc = "corrector" -> 3
      [] pc = "log" -> 2
      [] pc = "export" -> 1
      [] OTHER -> 0

SetupLeft ==
    CASE pc = "validate_lumped" -> 7
      [] pc = "time_step" -> 6
      [] pc = "validate_dt" -> 5
      [] pc = "assemble" -> 4
      [] pc = "build" -> 3
      [] pc = "allocate" -> 2
      [] pc = "zero" -> 1
      [] OTHER -> 0

(* cell and loop steps left before Completed in a run without error *)
Remaining ==
    IF pc \in { "Completed", "Error" } THEN 0
    ELSE IF pc = "print" THEN 1
    ELSE IF Stepping THEN 6 * (num_steps - n - 1) + BodyLeft + 1
    ELSE SetupLeft + 6 * num_steps + 1

C5_Progress ==
    /\ pc \notin { "Completed", "Error" } => ENABLED Next
    /\ pc = "Error" =>
           \/ (error = LumpedError /\ LumpedMassRejected)
           \/ (error = SolveError /\ SolveFails)

C5_StepTaken ==
    \/ Remaining' = Remaining - 1
    \/ (pc = "validate_lumped" /\ pc' = "Error")
    \/ (pc = "solve" /\ SolveFails /\ pc' = "Error")

(* C5: the loop runs exactly num_steps iterations with one solve each,     *)
(* never more; every step brings the run one step closer to Completed,     *)
(* which it reaches unless a solve fails.                                  *)
C5_RunLength ==
    /\ [] (C5_Counts /\ C5_Progress)
    /\ [][C5_StepTaken]_vars

C5_Witness ==
    /\ pc = "Completed"
    /\ num_steps >= 2
    /\ time_solve = num_steps
    /\ n = num_steps

(* rows of the logs written so far *)
LoggedRows == IF pc = "export" THEN n + 1 ELSE n

C6_Rows ==
    Allocated =>
        /\ DOMAIN times = 0..num_steps
        /\ DOMAIN displ_tip = 0..num_steps
        /\ DOMAIN energies = 0..num_steps
        /\ \A k \in 0..num_steps : times[k] = Rat(k * dt[1], dt[2])
        /\ \A k \in 0..num_steps :
               (k = 0 \/ k > LoggedRows) =>
                   (displ_tip[k] = Zero /\ energies[k] = ZeroRow)

C6_Writes ==
    Allocated =>
        /\ \A k \in 1..LoggedRows :
               displ_tip'[k] = displ_tip[k] /\ energies'[k] = energies[k]
        /\ times' = times
        /\ (displ_tip' # displ_tip \/ energies' # energies) => pc = "log"
        /\ pc = "log" =>
               /\ displ_tip'[n + 1] = u_vec[coords_tip]
               /\ energies'[n + 1][1] = RatMul(Half, Quad(stiffness, u_vec))
               /\ energies'[n + 1][2] = RatMul(Half, Quad(mass, v_vec))

(* C6: one row of each log is written per completed step, at index n+1;    *)
(* written rows are never modified, unwritten rows and row 0 stay zero,    *)
(* and times[k] = k*dt.                                                    *)
C6_AppendOnlyLogs == [] C6_Rows /\ [][C6_Writes]_vars

C6_Witness ==
    /\ pc = "Completed"
    /\ num_steps >= 2
    /\ displ_tip[1] # Zero
    /\ displ_tip[2] # displ_tip[1]
    /\ energies[2] # energies[1]

(* the displacement snapshot of the j-th completed step *)
USnapshot(j) == xdmf_file[2 * j - 1]

C7_Snapshots ==
    /\ Len(xdmf_file) = 2 * n
    /\ \A j \in 1..n :
           /\ USnapshot(j).name = "u"
           /\ USnapshot(j).t = Rat(j - 1, 1)
           /\ USnapshot(j).u[coords_tip] = displ_tip[j]
           /\ \A i \in bcs : USnapshot(j).u[i] = Zero
    /\ (n > 0 /\ pc \in { "predictor", "print", "Completed" }) =>
           USnapshot(n).u = u_vec

C7_Calls ==
    /\ xdmf_file' # xdmf_file =>
           /\ pc = "export"
           /\ SubSeq(xdmf_file', 1, Len(xdmf_file)) = xdmf_file
           /\ xdmf_file'[Len(xdmf_file) + 1].u = u_vec
    /\ pc \in { "log", "export" } => u_vec' = u_vec

(* C7: the writer is called once per completed step, after the corrector;  *)
(* after k steps it holds k displacement snapshots, in step order, each    *)
(* the post-corrector displacement of its step.                            *)
C7_ExportAfterCorrector == [] C7_Snapshots /\ [][C7_Calls]_vars

C7_Witness ==
    /\ pc = "Completed"
    /\ n >= 2
    /\ beta # Zero
    /\ USnapshot(1).u[coords_tip] # Zero
    /\ USnapshot(2).u # USnapshot(1).u

(* C8: every snapshot of step n -> n+1 carries the time (n+1)*dt.          *)
C8_SnapshotTime ==
    \A j \in 1..Len(xdmf_file) :
        xdmf_file[j].t = StepTime((j - 1) \div 2)

Warned == Len(warnings_log) > 0

TimeStepChecked ==
    pc \notin { "validate_lumped", "time_step", "validate_dt" }
    /\ ~(pc = "Error" /\ error # SolveError)

(* C9: in lumped mode the warning is emitted exactly when dt > dt_crit:    *)
(* at 1.01*dt_crit, not at dt_crit and not at 0.5*dt_crit.                 *)
C9_StabilityWarning ==
    (use_lumped_mass /\ TimeStepChecked) =>
        /\ Warned <=> (dt[1] * dt_crit[2] > dt_crit[1] * dt[2])
        /\ dt = RatMul(Rat(101, 100), dt_crit) => Warned
        /\ dt = dt_crit => ~Warned
        /\ dt = RatMul(Half, dt_crit) => ~Warned
        /\ Len(warnings_log) <= 1

C9_Witness ==
    /\ use_lumped_mass
    /\ pc = "predictor"
    /\ dt = RatMul(Rat(101, 100), dt_crit)
    /\ Warned

(* the acceleration of a right-hand side, as a function of its argument *)
RefSolve(rhs) ==
    IF use_lumped_mass
    THEN BcApplyVec([i \in Dofs |-> RatMul(M_lumped_inv[i], rhs[i])])
    ELSE LUSolve(M, rhs)

RefCorrect(up, vp, an) == << CorrectU(up, an), CorrectV(vp, an), an >>

(* one step from the state s = (u, v, a), the k-th of the run *)
RefStep(s, k) ==
    CHOOSE x \in { RefCorrect(p[1], p[2], an) :
                     p \in { << PredictU(s[1], s[2], s[3]), PredictV(s[2], s[3]) >> },
                     an \in { RefSolve(EffectiveLoad(k - 1,
                                  PredictU(s[1], s[2], s[3]),
                                  PredictV(s[2], s[3]))) } } : TRUE

(* the state (u, v, a) after k steps from rest *)
RECURSIVE RefState(_)
RefState(k) ==
    IF k = 0 THEN << ZeroVec, ZeroVec, ZeroVec >>
    ELSE CHOOSE x \in { RefStep(s, k) : s \in { RefState(k - 1) } } : TRUE

C10_Outcome ==
    /\ (Warned /\ pc = "Error") => (error = SolveError /\ SolveFails)
    /\ (Warned /\ pc \notin { "Completed", "Error" }) => ENABLED Next
    /\ (Warned /\ pc = "Completed") =>
           /\ n = num_steps
           /\ time_solve = num_steps
           /\ << u_vec, v_vec, a_vec >> = RefState(num_steps)
           /\ \A k \in 1..num_steps : displ_tip[k] = RefState(k)[1][coords_tip]

C10_Frame ==
    /\ pc = "validate_dt" =>
           /\ pc' = "assemble"
           /\ UNCHANGED << newton, branches, params, error, dt, dt_crit, C, K, M, M_lumped_inv,
                           u_vec, v_vec, a_vec, f, n, times, displ_tip,
                           energies, E_damp, xdmf_file, time_solve >>
    /\ pc # "validate_dt" => warnings_log' = warnings_log
    /\ Warned => Remaining' < Remaining

(* C10: the warning changes nothing but the warning log: the run goes on   *)
(* to the same num_steps steps, state and logs, and is never stopped by it.*)
C10_WarningAdvisory == [] C10_Outcome /\ [][C10_Frame]_vars

C10_Witness ==
    /\ Warned
    /\ pc = "Completed"
    /\ num_steps >= 2
    /\ u_vec[coords_tip] # Zero

C11_Aborted ==
    (pc = "Error" /\ error = SolveError) =>
        /\ SolveFails
        /\ ~ENABLED Next
        /\ time_solve = n
        /\ Len(xdmf_file) = 2 * n
        /\ \A k \in 0..num_steps :
               k > n => (displ_tip[k] = Zero /\ energies[k] = ZeroRow)

C11_Outcome ==
    /\ C11_Aborted
    /\ SolveFails => pc \notin { "corrector", "log", "export", "print", "Completed" }
    /\ pc = "Completed" =>
           /\ n = num_steps
           /\ DOMAIN displ_tip = 0..num_steps
           /\ DOMAIN energies = 0..num_steps
           /\ Len(xdmf_file) = 2 * num_steps

C11_FailingSolve ==
    (pc = "solve" /\ SolveFails) =>
        /\ pc' = "Error"
        /\ error' = SolveError
        /\ UNCHANGED << n, time_solve, a_vec, displ_tip, energies, E_damp,
                        xdmf_file >>

(* C11: a failed solve stops the run there with the error: the step is     *)
(* not retried, no later step runs, and neither a log row nor a snapshot   *)
(* is written for it; a run without a failed solve completes with all      *)
(* num_steps rows and snapshots.                                           *)
C11_FailureSemantics == [] C11_Outcome /\ [][C11_FailingSolve]_vars

C11_Witness ==
    /\ pc = "Error"
    /\ error = SolveError
    /\ num_steps >= 2
    /\ f[coords_tip] # Zero

(* 1/2*u^T K u + 1/2*v^T M v as logged in row k *)
MechanicalEnergy(k) == RatAdd(energies[k][1], energies[k][2])

Conservative ==
    /\ << beta, gamma >> = << Rat(1, 4), Half >>
    /\ params.eta_m = Zero
    /\ params.eta_k = Zero

(* the external force evaluated in step k is zero *)
ForceZero(k) == p_ext(StepTime(k)) = ZeroVec

(* C12 as stated: with zero damping and (beta, gamma) = (1/4, 1/2), every  *)
(* step whose external force is zero leaves 1/2*u^T K u + 1/2*v^T M v      *)
(* unchanged.                                                              *)
C12_EnergyConserved ==
    (pc = "export" /\ Conservative /\ ForceZero(n)) =>
        MechanicalEnergy(n + 1) = MechanicalEnergy(n)

(* C12 amended: with zero damping and (beta, gamma) = (1/4, 1/2), every    *)
(* step whose external force is zero at both of its ends (the force of     *)
(* the step and the force of the step before it) leaves the mechanical     *)
(* energy unchanged, and the damping column stays zero.                    *)
C12_EnergyConservedFree ==
    (pc = "export" /\ Conservative /\ ForceZero(n)
        /\ (n = 0 \/ ForceZero(n - 1))) =>
        /\ MechanicalEnergy(n + 1) = MechanicalEnergy(n)
        /\ energies[n + 1][3] = Zero
        /\ energies[n + 1][4] = MechanicalEnergy(n + 1)

C12_Witness ==
    /\ pc = "export"
    /\ Conservative
    /\ n >= 1
    /\ ForceZero(n)
    /\ ForceZero(n - 1)
    /\ MechanicalEnergy(n) # Zero
    /\ u_vec # ZeroVec
    /\ displ_tip[n + 1] # displ_tip[n]

(* the construction cell of compute_acceleration has run *)
Built ==
    /\ pc \notin { "validate_lumped", "time_step", "validate_dt", "assemble", "build" }
    /\ ~(pc = "Error" /\ error = LumpedError)

(* right-hand sides on which two solve operators are compared: the unit     *)
(* vectors, which decide a linear operator                                 *)
RhsSamples == { [i \in Dofs |-> IF i = j THEN One ELSE Zero] : j \in Dofs }

(* the solve operator as the construction cell would build it now *)
Rebuilt ==
    IF use_lumped_mass
    THEN [i \in Dofs |-> RatInv(M_lumped[i])]
    ELSE EffectiveMatrix

(* the acceleration an operator returns for a right-hand side *)
SolveWith(op, rhs) ==
    IF use_lumped_mass
    THEN BcApplyVec([i \in Dofs |-> RatMul(op[i], rhs[i])])
    ELSE LUSolve(op, rhs)

(* C14: at any point after the construction, building the solve operator   *)
(* again from the same (M, C, K, dt, beta, gamma) gives the operator held, *)
(* with the same acceleration for every right-hand side, and the state     *)
(* and tip log between steps are those the inputs alone determine.         *)
C14_Determinism ==
    (Built /\ ~SolveFails) =>
        /\ \A op \in { Rebuilt } :
               /\ op = IF use_lumped_mass THEN M_lumped_inv ELSE M
               /\ \A rhs \in RhsSamples : RefSolve(rhs) = SolveWith(op, rhs)
        /\ (pc \in { "predictor", "print", "Completed" } /\ n > 0) =>
               /\ << u_vec, v_vec, a_vec >> = RefState(n)
               /\ displ_tip[n] = RefState(n)[1][coords_tip]

C14_Witness ==
    /\ ~use_lumped_mass
    /\ pc = "Completed"
    /\ n >= 2
    /\ beta # Zero
    /\ params.eta_m # Zero
    /\ u_vec[coords_tip] # Zero

C15_PredictorStep ==
    pc = "predictor" =>
        /\ \A i \in Dofs :
               /\ u_vec'[i] =
                      RatAdd(RatAdd(u_vec[i], RatMul(dt, v_vec[i])),
                             RatMul(RatMul(RatSub(Half, beta), RatMul(dt, dt)),
                                    a_vec[i]))
               /\ v_vec'[i] =
                      RatAdd(v_vec[i],
                             RatMul(RatMul(RatSub(One, gamma), dt), a_vec[i]))
        /\ a_vec' = a_vec

(* C15: the predictor sets u to u_n + dt*v_n + (1/2 - beta)*dt^2*a_n and   *)
(* v to v_n + (1 - gamma)*dt*a_n, both from the state before the step: the *)
(* displacement uses the velocity not yet predicted, and the acceleration  *)
(* is the previous one, left as it is.                                     *)
C15_Predictor == [][C15_PredictorStep]_vars

C15_Witness ==
    /\ pc = "force"
    /\ n >= 1
    /\ gamma # One
    /\ beta # Zero
    /\ a_vec[coords_tip] # Zero
    /\ v_vec[coords_tip] # Zero
    /\ u_vec[coords_tip] # displ_tip[n]

(* the state (u, v) the predictor makes of the state after k steps *)
PredictedState(k) ==
    CHOOSE x \in { << PredictU(s[1], s[2], s[3]), PredictV(s[2], s[3]) >> :
                     s \in { RefState(k) } } : TRUE

(* C16: the right-hand side handed to the solve of step n is the external  *)
(* force at (n+1)*dt minus C*v_pred and K*u_pred, taken on the predicted   *)
(* state, with every constrained row set to 0 afterwards.                  *)
C16_ForceAssembly ==
    pc = "solve" =>
        /\ << u_vec, v_vec >> = PredictedState(n)
        /\ \A i \in bcs : f[i] = Zero
        /\ \A i \in Dofs \ bcs :
               f[i] = RatSub(RatSub(p_ext(RatMul(Rat(n + 1, 1), dt))[i],
                                    Mult(damping, v_vec)[i]),
                             Mult(stiffness, u_vec)[i])

C16_Witness ==
    /\ pc = "solve"
    /\ n >= 1
    /\ params.load[1] # Zero
    /\ p_ext(RatMul(Rat(n + 1, 1), dt)) # ZeroVec
    /\ params.eta_k # Zero
    /\ v_vec[coords_tip] # Zero
    /\ u_vec[coords_tip] # displ_tip[n]
    /\ f[coords_tip] # p_ext(RatMul(Rat(n + 1, 1), dt))[coords_tip]

C17_NewAcceleration == pc = "corrector" => a_vec = RefSolve(f)

C17_CorrectorStep ==
    pc = "corrector" =>
        /\ \A i \in Dofs :
               /\ u_vec'[i] =
                      RatAdd(u_vec[i], RatMul(RatMul(beta, RatMul(dt, dt)), a_vec[i]))
               /\ v_vec'[i] =
                      RatAdd(v_vec[i], RatMul(RatMul(gamma, dt), a_vec[i]))
        /\ beta = Zero => u_vec' = u_vec
        /\ a_vec' = a_vec

(* C17: the corrector adds beta*dt^2*a to the predicted displacement and   *)
(* gamma*dt*a to the predicted velocity, a being the acceleration just     *)
(* solved from the right-hand side of this step; with beta = 0 the         *)
(* displacement stays as predicted.                                        *)
C17_Corrector == [] C17_NewAcceleration /\ [][C17_CorrectorStep]_vars

C17_Witness ==
    /\ pc = "log"
    /\ n >= 1
    /\ beta # Zero
    /\ dt # One
    /\ a_vec[coords_tip] # Zero
    /\ << u_vec, v_vec >> # PredictedState(n)
    /\ a_vec # RefState(n)[3]

(* 1/2 * x^T A x written out over the dofs *)
HalfQuadratic(A, x) ==
    RatMul(Half,
           RatSum(Dofs, [i \in Dofs |->
               RatSum(Dofs, [j \in Dofs |-> RatMul(RatMul(x[i], A[i][j]), x[j])])]))

(* C18: the row logged for a step holds the elastic and kinetic energies   *)
(* of the post-corrector state, taken with the physical stiffness and      *)
(* mass, then the damping energy, then the sum of the three.               *)
C18_EnergyRow ==
    /\ pc = "export" =>
           /\ << u_vec, v_vec, a_vec >> = RefState(n + 1)
           /\ energies[n + 1][1] = HalfQuadratic(stiffness, u_vec)
           /\ energies[n + 1][2] = HalfQuadratic(mass, v_vec)
           /\ energies[n + 1][3] = E_damp
    /\ Allocated =>
           \A k \in 0..num_steps :
               /\ Len(energies[k]) = 4
               /\ energies[k][4] =
                      RatAdd(RatAdd(energies[k][1], energies[k][2]), energies[k][3])

C18_Witness ==
    /\ pc = "export"
    /\ n >= 1
    /\ energies[n + 1][1] # Zero
    /\ energies[n + 1][2] # Zero
    /\ energies[n + 1][3] # Zero
    /\ energies[n + 1] # energies[n]

(* dt * v^T C v on the velocity v *)
StepDissipation(v) ==
    CHOOSE x \in { RatMul(dt, Dot(w, Mult(damping, w))) : w \in { v } } : TRUE

(* the state after k steps together with the sum of the dissipation of     *)
(* steps 1..k                                                              *)
RECURSIVE RefDamped(_)
RefDamped(k) ==
    IF k = 0 THEN << RefState(0), Zero >>
    ELSE CHOOSE x \in
            { << s, RatAdd(p[2], StepDissipation(s[2])) >> :
                 s \in { RefStep(p[1], k) : p \in { RefDamped(k - 1) } },
                 p \in { RefDamped(k - 1) } } : TRUE

DampSum(k) == RefDamped(k)[2]

C19_Accumulated ==
    /\ (Allocated /\ pc # "Error" /\ LoggedRows = 0) => E_damp = Zero
    /\ pc = "export" =>
           /\ E_damp = DampSum(n + 1)
           /\ energies[n + 1][3] = E_damp
           /\ n > 0 => E_damp = RatAdd(energies[n][3], StepDissipation(v_vec))

C19_Increment ==
    /\ pc = "log" =>
           E_damp' = RatAdd(E_damp, RatMul(dt, Dot(v_vec, Mult(damping, v_vec))))
    /\ (Allocated /\ pc # "log") => E_damp' = E_damp

(* C19: the damping energy starts at 0, every completed step adds          *)
(* dt * v^T C v of its post-corrector velocity, and the value logged after *)
(* k steps is the sum of the k increments.                                 *)
C19_DampingEnergy == [] C19_Accumulated /\ [][C19_Increment]_vars

C19_Witness ==
    /\ pc = "export"
    /\ n >= 1
    /\ gamma # Zero
    /\ a_vec[coords_tip] # Zero
    /\ energies[n][3] # Zero
    /\ energies[n + 1][3] # energies[n][3]

C20_System ==
    /\ (~use_lumped_mass /\ ~Built) => M = ZeroMat
    /\ (~use_lumped_mass /\ Built) =>
           /\ \A i \in bcs : \A j \in Dofs :
                  M[i][j] = IF i = j THEN One ELSE Zero
           /\ \A i \in Dofs \ bcs : \A j \in Dofs :
                  M[i][j] =
                      RatAdd(RatAdd(mass[i][j],
                                    RatMul(RatMul(gamma, dt), C[i][j])),
                             RatMul(RatMul(beta, RatMul(dt, dt)), K[i][j]))
    /\ (~use_lumped_mass /\ pc = "corrector") => Mult(M, a_vec) = f

C20_Frame ==
    ~use_lumped_mass =>
        /\ M' # M => pc = "build"
        /\ Built => (M' = M /\ C' = C /\ K' = K /\ dt' = dt)

(* C20: in implicit mode the matrix of the solve is built once, before the *)
(* first step, as M + gamma*dt*C + beta*dt^2*K with the constrained rows   *)
(* replaced, is never modified afterwards, and every step's acceleration   *)
(* solves the system with that matrix.                                     *)
C20_EffectiveSystem == [] C20_System /\ [][C20_Frame]_vars

C20_Witness ==
    /\ ~use_lumped_mass
    /\ pc = "corrector"
    /\ n >= 1
    /\ beta # Zero
    /\ dt # One
    /\ params.eta_k # Zero
    /\ a_vec[coords_tip] # Zero

(* C21: once the operators are assembled, neither the construction of    *)
(* the effective system nor a step modifies them: C and K stay as          *)
(* assembled and M still is the assembled mass matrix (with or without     *)
(* its constrained rows replaced) after the effective system is built.     *)
C21_OperatorsImmutable ==
    (~use_lumped_mass /\ Built) =>
        /\ C = BcApplyMat(damping)
        /\ K = BcApplyMat(stiffness)
        /\ M \in { mass, BcApplyMat(mass) }

IdentityRow(i) == [j \in Dofs |-> IF j = i THEN One ELSE Zero]

(* M + gamma*dt*C + beta*dt^2*K before the boundary conditions are applied *)
UnconstrainedSum ==
    [i \in Dofs |-> [j \in Dofs |->
        RatAdd(RatAdd(mass[i][j], RatMul(RatMul(gamma, dt), C[i][j])),
               RatMul(RatMul(beta, RatMul(dt, dt)), K[i][j]))]]

OperatorsAssembled == pc = "build" \/ Built

C24_LumpedSolve ==
    (use_lumped_mass /\ Built) =>
        \A rhs \in RhsSamples :
            compute_acceleration(rhs) =
                [i \in Dofs |-> IF i \in bcs THEN Zero
                                ELSE RatMul(M_lumped_inv[i], rhs[i])]

(* the load factor prescribed for step k: T_max*t/t_c at t = (k+1)*dt when *)
(* t <= t_c, zero afterwards, compared by cross-multiplication             *)
ScheduledLoad(k) ==
    LET t == Rat((k + 1) * dt[1], dt[2])
        t_c == params.t_c
    IN  IF t[1] * t_c[2] <= t_c[1] * t[2]
        THEN Rat(params.T_max[1] * t[1] * t_c[2], params.T_max[2] * t[2] * t_c[1])
        ELSE Zero

(* the external part of the assembled force: f + C*v + K*u at a free dof *)
AppliedLoad(i) == RatAdd(RatAdd(f[i], Mult(C, v_vec)[i]), Mult(K, u_vec)[i])

(* C26: the traction of step n is the one at t = (n+1)*dt: T_max*t/t_c in  *)
(* the loading direction while t <= t_c, the full T_max at t = t_c, zero   *)
(* afterwards; the evaluation times are positive and strictly increasing,  *)
(* so the load at t = 0 is never applied.                                  *)
C26_LoadSchedule ==
    pc = "solve" =>
        /\ \A i \in Dofs \ bcs :
               AppliedLoad(i) = RatMul(ScheduledLoad(n), params.load[i])
        /\ Rat((n + 1) * dt[1], dt[2]) = params.t_c =>
               ScheduledLoad(n) = params.T_max
        /\ RatLess(Zero, Rat((n + 1) * dt[1], dt[2]))
        /\ RatLess(Rat(n * dt[1], dt[2]), Rat((n + 1) * dt[1], dt[2]))

C26_Witness ==
    /\ pc = "solve"
    /\ n >= 1
    /\ Rat((n + 1) * dt[1], dt[2]) = params.t_c
    /\ params.T_max # Zero
    /\ params.load[coords_tip] # Zero
    /\ AppliedLoad(coords_tip) # f[coords_tip]

(* C29: with use_lumped_mass False the validation of the configuration     *)
(* raises no error whatever beta and gamma are, and the operator that is   *)
(* built is the implicit one: the effective matrix, no lumped diagonal.    *)
C29_ImplicitAccepted ==
    ~use_lumped_mass =>
        /\ error # LumpedError
        /\ pc = "Error" => (error = SolveError /\ Allocated)
        /\ Built =>
               /\ M = BcApplyMat(UnconstrainedSum)
               /\ M_lumped_inv = ZeroVec

C29_Witness ==
    /\ ~use_lumped_mass
    /\ << beta, gamma >> = << Zero, Half >>
    /\ pc = "Completed"
    /\ M # ZeroMat

NonNegativeDamping ==
    /\ RatLeq(Zero, params.eta_m)
    /\ RatLeq(Zero, params.eta_k)

(* C30: with eta_m >= 0 and eta_k >= 0 the logged damping energy is        *)
(* non-negative and non-decreasing from row to row; with eta_m = eta_k = 0 *)
(* it is zero in every row and the logged total is elastic + kinetic.      *)
C30_DampingMonotone ==
    (Allocated /\ NonNegativeDamping) =>
        /\ \A k \in 0..LoggedRows : RatLeq(Zero, energies[k][3])
        /\ \A k \in 1..LoggedRows : RatLeq(energies[k - 1][3], energies[k][3])
        /\ (params.eta_m = Zero /\ params.eta_k = Zero) =>
               \A k \in 0..LoggedRows :
                   /\ energies[k][3] = Zero
                   /\ energies[k][4] = RatAdd(energies[k][1], energies[k][2])

C30_Witness ==
    /\ pc = "export"
    /\ n >= 1
    /\ NonNegativeDamping
    /\ params.eta_k # Zero
    /\ RatLess(Zero, energies[n][3])
    /\ RatLess(energies[n][3], energies[n + 1][3])

(***************************************************************************)
(* newton_solver (02-Nonlinear-Elasticity): one call, with its locals in   *)
(* the record newton. The linear solve of an iteration is an input: the    *)
(* correction it returns is drawn from Corrections; the unknown is a       *)
(* single number, whose norm is its absolute value.                        *)
(***************************************************************************)
MaxIter == 3

Tolerances == { Zero, Half, One }

InitialGuesses == { Zero, One }

Corrections == { Zero, One, Rat(-2, 1) }

(* a local that has not been assigned yet *)
Unbound == << 0, 0 >>

(* no value returned *)
None == -1

CouldNotConverge == "RuntimeError: could not converge"

UnboundLocal == "UnboundLocalError: local variable 'norm_u' referenced before assignment"

(* the Newmark notebook is not run during a call of newton_solver *)
newmark_vars == << params, pc, error, warnings_log, dt, dt_crit, C, K, M,
                   M_lumped_inv, u_vec, v_vec, a_vec, f, n, times, displ_tip,
                   energies, E_damp, xdmf_file, time_solve >>

NewmarkNotRun ==
    /\ params = NotCalled
    /\ pc = "NotCalled"
    /\ error = ""
    /\ warnings_log = << >>
    /\ dt = Zero /\ dt_crit = Zero
    /\ C = ZeroMat /\ K = ZeroMat /\ M = ZeroMat /\ M_lumped_inv = ZeroVec
    /\ u_vec = ZeroVec /\ v_vec = ZeroVec /\ a_vec = ZeroVec /\ f = ZeroVec
    /\ n = 0
    /\ times = << >> /\ displ_tip = << >> /\ energies = << >>
    /\ E_damp = Zero
    /\ xdmf_file = << >>
    /\ time_solve = 0

(* def newton_solver(u, max_iter, rtol, atol, monitor): delta_u = 0 *)
NewtonInit ==
    /\ newton \in [ pc : { "loop" },
                     max_iter : 0..MaxIter,
                     rtol : Tolerances,
                     atol : Tolerances,
                     monitor : BOOLEAN,
                     k : { -1 },
                     u : InitialGuesses,
                     delta_u : { Zero },
                     norm_u : { Unbound },
                     norm_delta_u : { Unbound },
                     solves : { 0 },
                     updates : { 0 },
                     tests : { << >> },
                     calls : { << >> },
                     result : { None },
                     error : { "" } ]
    /\ branches = NotCalled
    /\ NewmarkNotRun

(* for k in range(max_iter): ... else: raise RuntimeError(... norm_u ...) *)
NewtonLoop ==
    /\ newton.pc = "loop"
    /\ IF newton.k + 1 < newton.max_iter
       THEN newton' = [newton EXCEPT !.k = @ + 1, !.pc = "solve"]
       ELSE newton' = [newton EXCEPT
                          !.pc = "Raised",
                          !.error = IF newton.norm_u = Unbound
                                    THEN UnboundLocal
                                    ELSE CouldNotConverge]
    /\ UNCHANGED << branches, newmark_vars >>

(* linear_solver.solve() *)
NewtonSolve ==
    /\ newton.pc = "solve"
    /\ \E d \in Corrections :
           newton' = [newton EXCEPT !.delta_u = d, !.solves = @ + 1,
                                    !.pc = "update"]
    /\ UNCHANGED << branches, newmark_vars >>

(* u.assign(u+delta_u); norm_delta_u = norm(delta_u); norm_u = norm(u) *)
NewtonUpdate ==
    /\ newton.pc = "update"
    /\ newton' = [newton EXCEPT
                     !.u = RatAdd(newton.u, newton.delta_u),
                     !.norm_delta_u = RatAbs(newton.delta_u),
                     !.norm_u = RatAbs(RatAdd(newton.u, newton.delta_u)),
                     !.updates = @ + 1,
                     !.pc = "monitor"]
    /\ UNCHANGED << branches, newmark_vars >>

(* if monitor is not None: monitor(k, u, norm_u, norm_delta_u, ...) *)
NewtonMonitor ==
    /\ newton.pc = "monitor"
    /\ IF newton.monitor
       THEN newton' = [newton EXCEPT
                          !.calls = Append(@, [ iteration |-> newton.k,
                                                u |-> newton.u,
                                                solves |-> newton.solves,
                                                updates |-> newton.updates,
                                                tests |-> Len(newton.tests) ]),
                          !.pc = "test"]
       ELSE newton' = [newton EXCEPT !.pc = "test"]
    /\ UNCHANGED << branches, newmark_vars >>

(* norm_delta_u <= rtol*norm_u+atol *)
Converged(norm_delta_u, norm_u, rtol, atol) ==
    RatLeq(norm_delta_u, RatAdd(RatMul(rtol, norm_u), atol))

(* variant: the number of iterations is returned instead of the index *)
NewtonTest_count ==
    /\ newton.pc = "test"
    /\ LET c == Converged(newton.norm_delta_u, newton.norm_u,
                          newton.rtol, newton.atol)
       IN  IF c
           THEN newton' = [newton EXCEPT !.tests = Append(@, c),
                                         !.result = newton.k + 1,
                                         !.pc = "Returned"]
           ELSE newton' = [newton EXCEPT !.tests = Append(@, c),
                                         !.pc = "loop"]
    /\ UNCHANGED << branches, newmark_vars >>

(* if norm_delta_u <= rtol*norm_u+atol: break ... return k *)
NewtonTest ==
    /\ newton.pc = "test"
    /\ LET c == Converged(newton.norm_delta_u, newton.norm_u,
                          newton.rtol, newton.atol)
       IN  IF c
           THEN newton' = [newton EXCEPT !.tests = Append(@, c),
                                         !.result = newton.k,
                                         !.pc = "Returned"]
           ELSE newton' = [newton EXCEPT !.tests = Append(@, c),
                                         !.pc = "loop"]
    /\ UNCHANGED << branches, newmark_vars >>

NewtonNext ==
    \/ NewtonLoop
    \/ NewtonSolve
    \/ NewtonUpdate
    \/ NewtonMonitor
    \/ NewtonTest

NewtonSpec == NewtonInit /\ [][NewtonNext]_vars

NewtonEnded == newton.pc \in { "Raised", "Returned" }

(* every iteration performed so far failed the stopping criterion *)
NeverConverged == \A i \in 1..Len(newton.tests) : ~newton.tests[i]

(* C27: newton_solver raises RuntimeError('could not converge ...') if and *)
(* only if max_iter iterations have been performed and the stopping        *)
(* criterion held in none of them; then exactly max_iter solves and        *)
(* updates have been done and nothing is returned.                         *)
C27_NonConvergence ==
    NewtonEnded =>
        /\ newton.error = CouldNotConverge <=>
               (Len(newton.tests) = newton.max_iter /\ NeverConverged)
        /\ newton.error = CouldNotConverge =>
               /\ newton.solves = newton.max_iter
               /\ newton.updates = newton.max_iter
               /\ newton.result = None

(* the calls of the monitor up to iteration k: one per iteration, in       *)
(* order, each after the update and before the test of its iteration       *)
MonitorCalls(k) ==
    /\ Len(newton.calls) = k + 1
    /\ \A i \in 1..(k + 1) :
           /\ newton.calls[i].iteration = i - 1
           /\ newton.calls[i].solves = i
           /\ newton.calls[i].updates = i
           /\ newton.calls[i].tests = i - 1

C28_Returned ==
    newton.pc = "Returned" =>
        /\ newton.result = newton.k
        /\ newton.error = ""
        /\ RatLeq(RatAbs(newton.delta_u),
                  RatAdd(RatMul(newton.rtol, RatAbs(newton.u)), newton.atol))
        /\ Len(newton.tests) = newton.k + 1
        /\ newton.tests[newton.k + 1]
        /\ \A i \in 1..newton.k : ~newton.tests[i]
        /\ newton.solves = newton.k + 1
        /\ newton.updates = newton.k + 1
        /\ IF newton.monitor THEN MonitorCalls(newton.k)
                             ELSE newton.calls = << >>

C28_StopsAtOnce ==
    (/\ newton.pc = "test"
     /\ RatLeq(RatAbs(newton.delta_u),
               RatAdd(RatMul(newton.rtol, RatAbs(newton.u)), newton.atol)))
        => (newton'.pc = "Returned" /\ newton'.solves = newton.solves)

(* C28: when the stopping criterion first holds at iteration k, the solver *)
(* stops at once and returns k after exactly k+1 solves and updates, the   *)
(* monitor (if given) having been called once per iteration 0..k in order, *)
(* each time after the update and before the convergence test.             *)
C28_Convergence == [] C28_Returned /\ [][C28_StopsAtOnce]_vars

C28_Witness ==
    /\ newton.pc = "Returned"
    /\ newton.k >= 2
    /\ newton.monitor
    /\ Len(newton.calls) = 3
    /\ newton.rtol # Zero

(***************************************************************************)
(* Both branches of the construction cell built on one system with         *)
(* diagonal mass and damping matrices, beta = 0 and gamma = 1/2, and both  *)
(* closures called with one right-hand side f_vec while the notebook-level *)
(* vector f holds another value. The record branches holds the operands.   *)
(***************************************************************************)
DiagonalMasses == { One, Rat(2, 1) }

DiagonalDampings == { Zero, One }

(* right-hand sides as the time loop produces them: bc applied *)
RightHandSides ==
    { BcApplyVec(<< One, r >>) : r \in { Zero, One, Rat(2, 1), Rat(-1, 1) } }

Diagonal(d1, d2) ==
    [i \in Dofs |-> [j \in Dofs |->
        IF i # j THEN Zero ELSE IF i = 1 THEN d1 ELSE d2]]

(* M_lumped_inv = 1./assemble(action(mass + one_half*dt*damping, ones)) *)
LumpedInverse(mass_mat, damping_mat, h) ==
    LET m == MatAxpy(mass_mat, RatMul(one_half, h), damping_mat)
    IN  [i \in Dofs |-> RatInv(RatSum(Dofs, m[i]))]

(* M = assemble(mass); M += gamma*dt*C; M += beta*dt**2*K; bc.apply(M) *)
ImplicitMatrix(mass_mat, C_mat, K_mat, b, g, h) ==
    LET M1 == MatAxpy(mass_mat, RatMul(g, h), C_mat)
        M2 == MatAxpy(M1, RatMul(b, RatMul(h, h)), K_mat)
    IN  BcApplyMat(M2)

BranchesInit ==
    /\ branches \in
          [ pc : { "assemble" },
            beta : { Zero },
            gamma : { Half },
            dt : { Rat(d, 1) : d \in TimeSteps },
            mass : { Diagonal(d1, d2) : d1 \in DiagonalMasses,
                                        d2 \in DiagonalMasses },
            damping : { Diagonal(d1, d2) : d1 \in DiagonalDampings,
                                           d2 \in DiagonalDampings },
            f : RightHandSides,
            f_vec : RightHandSides,
            C : { ZeroMat },
            K : { ZeroMat },
            M : { ZeroMat },
            M_lumped_inv : { ZeroVec },
            a_lumped : { ZeroVec },
            a_implicit : { ZeroVec } ]
    /\ newton = NotCalled
    /\ NewmarkNotRun

(* C = assemble(damping); K = assemble(stiffness); bc.apply(C), bc.apply(K) *)
BranchesAssemble ==
    /\ branches.pc = "assemble"
    /\ branches' = [branches EXCEPT
                       !.C = BcApplyMat(branches.damping),
                       !.K = BcApplyMat([i \in Dofs |-> [j \in Dofs |->
                                 IF i = j THEN One ELSE Rat(-1, 1)]]),
                       !.pc = "build_lumped"]
    /\ UNCHANGED << newton, newmark_vars >>

(* the branch taken with use_lumped_mass *)
BranchesBuildLumped ==
    /\ branches.pc = "build_lumped"
    /\ branches' = [branches EXCEPT
                       !.M_lumped_inv = LumpedInverse(branches.mass,
                                                      branches.damping,
                                                      branches.dt),
                       !.pc = "build_implicit"]
    /\ UNCHANGED << newton, newmark_vars >>

(* the branch taken without use_lumped_mass *)
BranchesBuildImplicit ==
    /\ branches.pc = "build_implicit"
    /\ branches' = [branches EXCEPT
                       !.M = ImplicitMatrix(branches.mass, branches.C,
                                            branches.K, branches.beta,
                                            branches.gamma, branches.dt),
                       !.pc = "call_lumped"]
    /\ UNCHANGED << newton, newmark_vars >>

(* compute_acceleration(f_vec, a_vec) of the lumped branch:                *)
(* a_vec[:] = M_lumped_inv*f[:]; bc.apply(a_vec)                           *)
BranchesCallLumped ==
    /\ branches.pc = "call_lumped"
    /\ branches' = [branches EXCEPT
                       !.a_lumped = BcApplyVec([i \in Dofs |->
                           RatMul(branches.M_lumped_inv[i], branches.f[i])]),
                       !.pc = "call_implicit"]
    /\ UNCHANGED << newton, newmark_vars >>

(* compute_acceleration(f_vec, a_vec) of the implicit branch:              *)
(* solver.solve(a_vec, f_vec)                                              *)
BranchesCallImplicit ==
    /\ branches.pc = "call_implicit"
    /\ branches' = [branches EXCEPT
                       !.a_implicit = LUSolve(branches.M, branches.f_vec),
                       !.pc = "done"]
    /\ UNCHANGED << newton, newmark_vars >>

BranchesNext ==
    \/ BranchesAssemble
    \/ BranchesBuildLumped
    \/ BranchesBuildImplicit
    \/ BranchesCallLumped
    \/ BranchesCallImplicit

BranchesSpec == BranchesInit /\ [][BranchesNext]_vars

====
